---- MODULE Spec2Model ----
(***************************************************************************)
(* Marker overlay and interaction layer of the floorplan viewer            *)
(* (components/Map.tsx, MapComponent).                                     *)
(*                                                                         *)
(* JavaScript runs one task at a time.  An async handler runs until it     *)
(* awaits a promise that only an image load settles (img.onload /          *)
(* img.onerror are tasks of their own); an await of createProfileStyle     *)
(* that finds the style in styleCache, or that finds no 2D context,        *)
(* continues in the microtasks of the same task.  Every action below is    *)
(* therefore one task: a map event, a timer callback or an image event,    *)
(* together with all continuations that run before the next task.         *)
(***************************************************************************)
EXTENDS Integers, Sequences, FiniteSets, Bags

\* ------------------------------------------------------------- constants
DEFAULT_MARKER_SIZE == 30
HOVER_MARKER_SIZE == 40
CLICK_MARKER_SIZE == 45
CLICK_ANIMATION_DURATION == 200
MIN_MAP_HEIGHT == 400
MAX_MAP_HEIGHT == 1200
HEADER_FOOTER_SPACE == 120
\* useState("600px"), in px
InitialMapHeight == 600

DEFAULT_LOCATIONS ==
  << [coords |-> <<176, 325>>, profile |-> "/profiles/profile1.jpeg"],
     [coords |-> <<176, 94>>,  profile |-> "/profiles/profile2.jpeg"],
     [coords |-> <<232, 506>>, profile |-> "/profiles/profile3.jpeg"],
     [coords |-> <<427, 506>>, profile |-> "/profiles/profile4.jpeg"],
     [coords |-> <<309, 176>>, profile |-> "/profiles/profile1.jpeg"] >>

DESK_LOCATIONS ==
  << [coords |-> <<176, 255>>, id |-> "desk-1"],
     [coords |-> <<176, 177>>, id |-> "desk-2"],
     [coords |-> <<333, 506>>, id |-> "desk-3"],
     [coords |-> <<525, 506>>, id |-> "desk-4"],
     [coords |-> <<309, 329>>, id |-> "desk-5"],
     [coords |-> <<309, 250>>, id |-> "desk-6"],
     [coords |-> <<309, 96>>,  id |-> "desk-6"] >>

\* ---------------------------------------------------------------- bounds
\* The entries of DEFAULT_LOCATIONS and DESK_LOCATIONS the model puts on the
\* map: the two locations that share profile1.jpeg and the two desks that
\* share the id "desk-6".
ProfileIdx == {1, 5}
DeskIdx == {6, 7}
\* Loads of a reachable image that fail all the same (a transient failure).
MaxFailures == 2
\* Handlers suspended on an image load plus click timers not yet fired.
MaxPending == 2
\* Runs of the map effect after the first one (mapHeight changed).
MaxRemounts == 1

\* ------------------------------------------------------------- features
NoFeature == <<"none", 0>>
ProfileFeature(i) == <<"profile", i>>
DeskFeature(j) == <<"desk", j>>

ProfileFeatures == { ProfileFeature(i) : i \in ProfileIdx }
DeskFeatures == { DeskFeature(j) : j \in DeskIdx }
Features == ProfileFeatures \cup DeskFeatures

FeatureType(f) == f[1]
FeatureProfile(f) == DEFAULT_LOCATIONS[f[2]].profile
FeatureCoords(f) ==
  IF FeatureType(f) = "profile" THEN DEFAULT_LOCATIONS[f[2]].coords
  ELSE DESK_LOCATIONS[f[2]].coords
FeatureId(f) == DESK_LOCATIONS[f[2]].id

\* ---------------------------------------------------------------- styles
\* A Style object.  An icon rendered by createProfileStyle carries the
\* source and size it was rendered from; id tells the objects rendered for
\* one (source, size) apart: the n-th render of the pair to complete builds
\* the object with id n.  new Style() is the empty fallback.
NoStyle == [kind |-> "none", src |-> "", size |-> 0, id |-> 0]
EmptyStyle == [kind |-> "empty", src |-> "", size |-> 0, id |-> 0]
deskStyle == [kind |-> "desk", src |-> "", size |-> 0, id |-> 0]
deskHoverStyle == [kind |-> "deskHover", src |-> "", size |-> 0, id |-> 0]
IconStyle(src, size, id) == [kind |-> "icon", src |-> src, size |-> size, id |-> id]

Sizes == {DEFAULT_MARKER_SIZE, HOVER_MARKER_SIZE, CLICK_MARKER_SIZE}
Sources == { DEFAULT_LOCATIONS[i].profile : i \in ProfileIdx }
Keys == Sources \X Sizes

VARIABLES
  hasContext,        \* canvas.getContext("2d") yields a context
  unreachable,       \* the image sources no load of which succeeds
  styleCache,        \* styleCache[profilePath][size], NoStyle when absent
  featureStyle,      \* the style set on each feature, NoStyle before it exists
  vectorSource,      \* profile features added to the map
  hoveredFeature,    \* the closure variable of the pointermove handler
  cursor,            \* map.getTargetElement().style.cursor
  selectedLocation, isOpen, selectedDesk, isDeskModalOpen,
  loads,             \* bag of image loads in flight, each with the awaiting continuation
  timers,            \* click-revert timers not yet fired, in firing order
  preloadsLeft,      \* preload promises Promise.all still waits for
  failures,          \* loads of reachable images that have failed
  errored,           \* the task that ran last ended in an uncaught TypeError
  calls,             \* what createProfileStyle did in the task that ran last
  requested,         \* the (source, size) pairs createProfileStyle was called for
  mapHeight,         \* the mapHeight state, in px
  mounted,           \* the component is mounted
  resizeListeners,   \* "resize" listeners registered on window
  remounts,          \* runs of the map effect after the first one
  detachedLeft       \* preload promises the initializeFeatures of the previous
                     \* run of the map effect still waits for

vars == << hasContext, unreachable, styleCache, featureStyle, vectorSource,
           hoveredFeature, cursor, selectedLocation, isOpen, selectedDesk,
           isDeskModalOpen, loads, timers, preloadsLeft, failures, errored,
           calls, requested, mapHeight, mounted, resizeListeners, remounts,
           detachedLeft >>

\* What only the resize effect, a re-run of the map effect and the teardown
\* change.
lifeVars == << mapHeight, mounted, resizeListeners, remounts >>

NoSelection == [coords |-> <<>>, profile |-> "", id |-> ""]

\* The part of the state a task reads and writes, at the start of a task.
Machine ==
  [ cache |-> styleCache, style |-> featureStyle, added |-> vectorSource,
    hovered |-> hoveredFeature, loads |-> loads, timers |-> timers,
    left |-> preloadsLeft, err |-> FALSE, ctx |-> hasContext,
    calls |-> {}, requested |-> requested, oldLeft |-> detachedLeft ]

\* ------------------------------------------------- createProfileStyle
\* A suspended continuation: where it resumes (op), the feature its handler
\* holds, the location index of the placing loop, for a pointermove
\* handler whether a later pointermove event has reported another feature,
\* and the run of the map effect whose closure it belongs to (gen 0: the
\* current one, 1: the previous one, whose map has been detached).
Cont(op, f, idx) ==
  [op |-> op, feature |-> f, idx |-> idx, stale |-> FALSE, gen |-> 0]

\* new Image(); img.src = profilePath: the promise stays pending until the
\* image event, and continuation k awaits it.
Load(profilePath, size, k) == [src |-> profilePath, size |-> size, k |-> k]

\* One thing createProfileStyle did: a call that returned the cached style
\* ("cached"), returned the fallback for want of a context ("nocontext") or
\* started an image load ("pending"), and an image event that resolved a
\* pending call ("loaded", "failed").  again: the pair had been requested
\* before; entry: what styleCache held for the pair at that moment.
CallRecord(profilePath, size, again, entry, outcome, style) ==
  [src |-> profilePath, size |-> size, again |-> again, entry |-> entry,
   outcome |-> outcome, style |-> style]

\* createProfileStyle(profilePath, size), awaited by continuation k, up to
\* the point where the await continues at once (settled) or suspends.
createProfileStyleNoLookup(m, profilePath, size, k) ==
  LET key == <<profilePath, size>>
      again == key \in m.requested
      m0 == [m EXCEPT !.requested = @ \cup {key}]
  IN IF ~m.ctx
     THEN [settled |-> TRUE, style |-> EmptyStyle,
           m |-> [m0 EXCEPT !.calls = @ \cup {CallRecord(profilePath, size, again,
                                              m.cache[key], "nocontext", EmptyStyle)}]]
     ELSE [settled |-> FALSE, style |-> NoStyle,
           m |-> [m0 EXCEPT !.loads = @ (+) SetToBag({Load(profilePath, size, k)}),
                            !.calls = @ \cup {CallRecord(profilePath, size, again,
                                              m.cache[key], "pending", NoStyle)}]]

createProfileStyle(m, profilePath, size, k) ==
  LET key == <<profilePath, size>>
      again == key \in m.requested
      m0 == [m EXCEPT !.requested = @ \cup {key}]
  IN IF m.cache[key] # NoStyle
     THEN [settled |-> TRUE, style |-> m.cache[key],
           m |-> [m0 EXCEPT !.calls = @ \cup {CallRecord(profilePath, size, again,
                                              m.cache[key], "cached", m.cache[key])}]]
     ELSE IF ~m.ctx
     THEN [settled |-> TRUE, style |-> EmptyStyle,
           m |-> [m0 EXCEPT !.calls = @ \cup {CallRecord(profilePath, size, again,
                                              m.cache[key], "nocontext", EmptyStyle)}]]
     ELSE [settled |-> FALSE, style |-> NoStyle,
           m |-> [m0 EXCEPT !.loads = @ (+) SetToBag({Load(profilePath, size, k)}),
                            !.calls = @ \cup {CallRecord(profilePath, size, again,
                                              m.cache[key], "pending", NoStyle)}]]

\* ------------------------------------------------ pointermove handler
\* The loads in flight once a pointermove event has reported feature f: the
\* hover requests for another feature are then out of date.
RECURSIVE SupersededFrom(_, _, _)
SupersededFrom(ls, S, f) ==
  IF S = {} THEN EmptyBag
  ELSE LET l == CHOOSE x \in S : TRUE
           l2 == IF l.k.op = "hover" THEN [l EXCEPT !.k.stale = (l.k.feature # f)]
                 ELSE l
       IN [x \in {l2} |-> CopiesIn(l, ls)] (+) SupersededFrom(ls, S \ {l}, f)

Superseded(ls, f) == SupersededFrom(ls, BagToSet(ls), f)

\* feature.setStyle(style); hoveredFeature = feature
HoverApply(m, f, s) == [m EXCEPT !.style[f] = s, !.hovered = f]

\* if (feature && hoveredFeature !== feature) { ... }
HoverBranch(m, f) ==
  IF f # NoFeature /\ m.hovered # f
  THEN IF FeatureType(f) = "profile"
       THEN LET r == createProfileStyle(m, FeatureProfile(f), HOVER_MARKER_SIZE,
                                        Cont("hover", f, 0))
            IN IF r.settled THEN HoverApply(r.m, f, r.style) ELSE r.m
       ELSE HoverApply(m, f, deskHoverStyle)
  ELSE m

\* After the await of the revert branch: hoveredFeature.setStyle(style);
\* hoveredFeature = null; then the hover branch.  hoveredFeature is read
\* again here, and setStyle on null throws.
RevertResume(m, f, s) ==
  IF m.hovered = NoFeature
  THEN [m EXCEPT !.err = TRUE]
  ELSE HoverBranch([m EXCEPT !.style[m.hovered] = s, !.hovered = NoFeature], f)

\* if (hoveredFeature && hoveredFeature !== feature) { ... }
RevertBranch(m, f) ==
  IF m.hovered # NoFeature /\ m.hovered # f
  THEN IF FeatureType(m.hovered) = "profile"
       THEN LET r == createProfileStyle(m, FeatureProfile(m.hovered),
                                        DEFAULT_MARKER_SIZE, Cont("revert", f, 0))
            IN IF r.settled THEN RevertResume(r.m, f, r.style) ELSE r.m
       ELSE HoverBranch([m EXCEPT !.style[m.hovered] = deskStyle,
                                  !.hovered = NoFeature], f)
  ELSE HoverBranch(m, f)

\* ------------------------------------------------------ click handler
\* clickedFeature.setStyle(largeStyle); setTimeout(..., CLICK_ANIMATION_DURATION)
ClickApply(m, f, s) == [m EXCEPT !.style[f] = s, !.timers = Append(@, f)]

\* const largeStyle = await createProfileStyle(..., CLICK_MARKER_SIZE); ...
ClickProfile(m, f) ==
  LET r == createProfileStyle(m, FeatureProfile(f), CLICK_MARKER_SIZE,
                              Cont("click", f, 0))
  IN IF r.settled THEN ClickApply(r.m, f, r.style) ELSE r.m

\* clickedFeature.setStyle(normalStyle)
TimerApply(m, f, s) == [m EXCEPT !.style[f] = s]

\* A callback that fetches the CLICK_MARKER_SIZE style a second time.
TimerCallbackKeepsEnlarged(m, f) ==
  LET r == createProfileStyle(m, FeatureProfile(f), CLICK_MARKER_SIZE,
                              Cont("timer", f, 0))
  IN IF r.settled THEN TimerApply(r.m, f, r.style) ELSE r.m

\* A callback that goes back to the hover style when the marker is hovered.
TimerCallbackHoverAware(m, f) ==
  LET r == createProfileStyle(m, FeatureProfile(f),
                              IF m.hovered = f THEN HOVER_MARKER_SIZE
                              ELSE DEFAULT_MARKER_SIZE,
                              Cont("timer", f, 0))
  IN IF r.settled THEN TimerApply(r.m, f, r.style) ELSE r.m

\* The callback of the click's setTimeout.
TimerCallback(m, f) ==
  LET r == createProfileStyle(m, FeatureProfile(f), DEFAULT_MARKER_SIZE,
                              Cont("timer", f, 0))
  IN IF r.settled THEN TimerApply(r.m, f, r.style) ELSE r.m

\* ------------------------------------------------- initializeFeatures
\* feature.setStyle(style); vectorSource.addFeature(feature)
PlaceApply(m, i, s) ==
  [m EXCEPT !.style[ProfileFeature(i)] = s, !.added = @ \cup {ProfileFeature(i)}]

\* for (const location of DEFAULT_LOCATIONS) { ... } from location i on.
RECURSIVE PlaceFrom(_, _)
PlaceFrom(m, i) ==
  IF i > Len(DEFAULT_LOCATIONS) THEN m
  ELSE IF i \notin ProfileIdx THEN PlaceFrom(m, i + 1)
  ELSE LET r == createProfileStyle(m, DEFAULT_LOCATIONS[i].profile,
                                   DEFAULT_MARKER_SIZE, Cont("place", NoFeature, i))
       IN IF r.settled THEN PlaceFrom(PlaceApply(r.m, i, r.style), i + 1) ELSE r.m

\* One preload promise settles; await Promise.all(...) continues with the last.
PreloadResolved(m) ==
  IF m.left = 1 THEN PlaceFrom([m EXCEPT !.left = 0], 1)
  ELSE [m EXCEPT !.left = @ - 1]

\* DEFAULT_LOCATIONS.flatMap(location => [default, hover, click])
RECURSIVE PreloadCalls(_)
PreloadCalls(i) ==
  IF i > Len(DEFAULT_LOCATIONS) THEN <<>>
  ELSE IF i \notin ProfileIdx THEN PreloadCalls(i + 1)
  ELSE << <<DEFAULT_LOCATIONS[i].profile, DEFAULT_MARKER_SIZE>>,
          <<DEFAULT_LOCATIONS[i].profile, HOVER_MARKER_SIZE>>,
          <<DEFAULT_LOCATIONS[i].profile, CLICK_MARKER_SIZE>> >>
       \o PreloadCalls(i + 1)

RECURSIVE StartPreloads(_, _)
StartPreloads(m, cs) ==
  IF cs = <<>> THEN m
  ELSE LET r == createProfileStyle(m, Head(cs)[1], Head(cs)[2],
                                   Cont("preload", NoFeature, 0))
       IN StartPreloads(IF r.settled THEN r.m ELSE [r.m EXCEPT !.left = @ + 1],
                        Tail(cs))

\* initializeFeatures() up to its first suspension.
initializeFeatures(m) ==
  LET m1 == StartPreloads(m, PreloadCalls(1))
  IN IF m1.left = 0 THEN PlaceFrom(m1, 1) ELSE m1

\* ------------------------------- initializeFeatures of a detached map
\* A continuation of the initializeFeatures that the previous run of the map
\* effect started: it goes on after map.setTarget(undefined), on the
\* vectorSource of that run, which no map shows any more.
DetachedCont(op, idx) == [Cont(op, NoFeature, idx) EXCEPT !.gen = 1]

\* Its placing loop from location i on: only its createProfileStyle calls
\* touch what the current run sees (styleCache, image loads).
RECURSIVE DetachedPlaceFrom(_, _)
DetachedPlaceFrom(m, i) ==
  IF i > Len(DEFAULT_LOCATIONS) THEN m
  ELSE IF i \notin ProfileIdx THEN DetachedPlaceFrom(m, i + 1)
  ELSE LET r == createProfileStyle(m, DEFAULT_LOCATIONS[i].profile,
                                   DEFAULT_MARKER_SIZE, DetachedCont("place", i))
       IN IF r.settled THEN DetachedPlaceFrom(r.m, i + 1) ELSE r.m

\* One of its preload promises settles.
DetachedPreloadResolved(m) ==
  IF m.oldLeft = 1 THEN DetachedPlaceFrom([m EXCEPT !.oldLeft = 0], 1)
  ELSE [m EXCEPT !.oldLeft = @ - 1]

\* ----------------------------------------------------- image events
\* The continuation that awaits the render, resumed with its result.
Resume(m, k, s) ==
  IF k.gen # 0
  THEN CASE k.op = "preload" -> DetachedPreloadResolved(m)
         [] k.op = "place"   -> DetachedPlaceFrom(m, k.idx + 1)
  ELSE CASE k.op = "preload" -> PreloadResolved(m)
         [] k.op = "place"   -> PlaceFrom(PlaceApply(m, k.idx, s), k.idx + 1)
         [] k.op = "revert"  -> RevertResume(m, k.feature, s)
         [] k.op = "hover"   -> HoverApply(m, k.feature, s)
         [] k.op = "click"   -> ClickApply(m, k.feature, s)
         [] k.op = "timer"   -> TimerApply(m, k.feature, s)

\* An img.onload that keeps the entry an earlier render of the pair wrote.
OnLoadKeepsFirst(m, l) ==
  LET key == <<l.src, l.size>>
      style == IconStyle(l.src, l.size, m.cache[key].id + 1)
  IN Resume([m EXCEPT !.loads = @ (-) SetToBag({l}),
                      !.cache[key] = IF @ = NoStyle THEN style ELSE @,
                      !.calls = @ \cup {CallRecord(l.src, l.size, TRUE, m.cache[key],
                                                   "loaded", style)}],
            l.k, style)

\* img.onload: the style is built, put in the cache, and resolves the promise.
OnLoad(m, l) ==
  LET key == <<l.src, l.size>>
      style == IconStyle(l.src, l.size, m.cache[key].id + 1)
  IN Resume([m EXCEPT !.loads = @ (-) SetToBag({l}),
                      !.cache[key] = style,
                      !.calls = @ \cup {CallRecord(l.src, l.size, TRUE, m.cache[key],
                                                   "loaded", style)}],
            l.k, style)

\* An img.onerror that logs and leaves the promise pending.
OnErrorNeverResolves(m, l) ==
  [m EXCEPT !.loads = @ (-) SetToBag({l}),
            !.calls = @ \cup {CallRecord(l.src, l.size, TRUE,
                                         m.cache[<<l.src, l.size>>],
                                         "failed", EmptyStyle)}]

\* An img.onerror that also stores the fallback in the cache.
OnErrorCachesFallback(m, l) ==
  Resume([m EXCEPT !.loads = @ (-) SetToBag({l}),
                   !.cache[<<l.src, l.size>>] = EmptyStyle,
                   !.calls = @ \cup {CallRecord(l.src, l.size, TRUE,
                                                m.cache[<<l.src, l.size>>],
                                                "failed", EmptyStyle)}],
         l.k, EmptyStyle)

\* img.onerror: the promise resolves with new Style().
OnError(m, l) ==
  Resume([m EXCEPT !.loads = @ (-) SetToBag({l}),
                   !.calls = @ \cup {CallRecord(l.src, l.size, TRUE,
                                                m.cache[<<l.src, l.size>>],
                                                "failed", EmptyStyle)}],
         l.k, EmptyStyle)

\* ------------------------------------------------------------- actions
\* The state a task leaves behind (the task's result m is computed once).
Commit(m) ==
  \E v \in {m} :
    /\ styleCache' = v.cache
    /\ featureStyle' = v.style
    /\ vectorSource' = v.added
    /\ hoveredFeature' = v.hovered
    /\ loads' = v.loads
    /\ timers' = v.timers
    /\ preloadsLeft' = v.left
    /\ errored' = v.err
    /\ calls' = v.calls
    /\ requested' = v.requested
    /\ detachedLeft' = v.oldLeft

HandlerLoads(ls) ==
  { l \in BagToSet(ls) : l.k.op \in {"revert", "hover", "click", "timer"} }

RECURSIVE Copies(_, _)
Copies(ls, S) ==
  IF S = {} THEN 0
  ELSE LET l == CHOOSE x \in S : TRUE IN CopiesIn(l, ls) + Copies(ls, S \ {l})

Pending(ls, ts) == Copies(ls, HandlerLoads(ls)) + Len(ts)

\* What the map's hit test can report.
Hittable == vectorSource \cup DeskFeatures

\* The module and the component before the map effect runs; createDeskFeature
\* has given every desk deskStyle.
EmptyMachine(ctx) ==
  [ cache |-> [k \in Keys |-> NoStyle],
    style |-> [f \in Features |-> IF f \in DeskFeatures THEN deskStyle ELSE NoStyle],
    added |-> {}, hovered |-> NoFeature, loads |-> EmptyBag, timers |-> <<>>,
    left |-> 0, err |-> FALSE, ctx |-> ctx, calls |-> {}, requested |-> {},
    oldLeft |-> 0 ]

\* ------------------------------------------- resize and map effect re-run
min(a, b) == IF a < b THEN a ELSE b
max(a, b) == IF a > b THEN a ELSE b

\* A calculateMapHeight without the fixed height of narrow viewports.
calculateMapHeightNoOverride(vw, vh) ==
  min(max(vh - HEADER_FOOTER_SPACE, MIN_MAP_HEIGHT), MAX_MAP_HEIGHT)

\* calculateMapHeight with window.innerWidth = vw and window.innerHeight = vh:
\* the height it passes to setMapHeight, in px.
calculateMapHeight(vw, vh) ==
  LET calculatedHeight == vh - HEADER_FOOTER_SPACE
      constrainedHeight == min(max(calculatedHeight, MIN_MAP_HEIGHT), MAX_MAP_HEIGHT)
  IN IF vw < 1024 THEN 600 ELSE constrainedHeight

\* The image loads once the map effect has been cleaned up: the suspended
\* continuations stay with the closure of the run that started them.
RECURSIVE DetachFrom(_, _)
DetachFrom(ls, S) ==
  IF S = {} THEN EmptyBag
  ELSE LET l == CHOOSE x \in S : TRUE
       IN [x \in {[l EXCEPT !.k.gen = 1]} |-> CopiesIn(l, ls)]
            (+) DetachFrom(ls, S \ {l})

Detach(ls) == DetachFrom(ls, BagToSet(ls))

\* A re-run whose body starts from an empty style cache.
MapEffectRerunFreshCache(m) ==
  initializeFeatures(
    [m EXCEPT !.loads = Detach(@), !.oldLeft = m.left, !.left = 0,
              !.cache = [k \in Keys |-> NoStyle],
              !.style = [f \in Features |->
                           IF f \in DeskFeatures THEN deskStyle ELSE NoStyle],
              !.added = {}, !.hovered = NoFeature, !.timers = <<>>])

\* The map effect runs again because mapHeight changed: its cleanup
\* (map.setTarget(undefined)) and then its body with new vector sources, new
\* desk features, a new hoveredFeature and a new initializeFeatures().
\* styleCache is module state and stays.
MapEffectRerun(m) ==
  initializeFeatures(
    [m EXCEPT !.loads = Detach(@), !.oldLeft = m.left, !.left = 0,
              !.style = [f \in Features |->
                           IF f \in DeskFeatures THEN deskStyle ELSE NoStyle],
              !.added = {}, !.hovered = NoFeature, !.timers = <<>>])

\* No pointermove or click handler of the map is suspended, no click timer is
\* pending, and the initializeFeatures of an earlier run has finished.
Quiescent ==
  /\ HandlerLoads(loads) = {}
  /\ timers = <<>>
  /\ \A l \in BagToSet(loads) : l.k.gen = 0

\* The viewports a resize event reports: narrow and wide, and heights around
\* both limits of the height.
Viewports == {1023, 1024} \X {519, 520, 880, 1320, 1321}

Init ==
  /\ hasContext \in BOOLEAN
  /\ unreachable \in SUBSET Sources
  /\ \E m \in {initializeFeatures(EmptyMachine(hasContext))} :
        /\ styleCache = m.cache
        /\ featureStyle = m.style
        /\ vectorSource = m.added
        /\ hoveredFeature = m.hovered
        /\ loads = m.loads
        /\ timers = m.timers
        /\ preloadsLeft = m.left
        /\ errored = m.err
        /\ calls = m.calls
        /\ requested = m.requested
        /\ detachedLeft = m.oldLeft
  /\ cursor = ""
  /\ selectedLocation = NoSelection
  /\ isOpen = FALSE
  /\ selectedDesk = NoSelection
  /\ isDeskModalOpen = FALSE
  /\ failures = 0
  /\ mapHeight = InitialMapHeight
  /\ mounted = TRUE
  /\ resizeListeners = 1
  /\ remounts = 0

\* A pointermove handler that takes the cursor from hoveredFeature as the
\* handler leaves it, not from the hit test.
PointerMoveCursorFromHovered(f) ==
  /\ f \in Hittable \cup {NoFeature}
  /\ Commit(RevertBranch([Machine EXCEPT !.loads = Superseded(@, f)], f))
  /\ cursor' = IF hoveredFeature' # NoFeature THEN "pointer" ELSE ""
  /\ Pending(loads', timers') <= MaxPending
  /\ UNCHANGED << hasContext, unreachable, selectedLocation, isOpen, selectedDesk,
                  isDeskModalOpen, failures >>
  /\ UNCHANGED lifeVars

\* map.on("pointermove", ...)
PointerMove(f) ==
  /\ f \in Hittable \cup {NoFeature}
  /\ cursor' = IF f # NoFeature THEN "pointer" ELSE ""
  /\ Commit(RevertBranch([Machine EXCEPT !.loads = Superseded(@, f)], f))
  /\ Pending(loads', timers') <= MaxPending
  /\ UNCHANGED << hasContext, unreachable, selectedLocation, isOpen, selectedDesk,
                  isDeskModalOpen, failures >>
  /\ UNCHANGED lifeVars

\* map.on("click", ...) on a profile marker
ClickProfileMarker(f) ==
  /\ f \in vectorSource
  /\ selectedLocation' = [coords |-> FeatureCoords(f), profile |-> FeatureProfile(f),
                          id |-> ""]
  /\ isOpen' = TRUE
  /\ Commit(ClickProfile(Machine, f))
  /\ Pending(loads', timers') <= MaxPending
  /\ UNCHANGED << hasContext, unreachable, cursor, selectedDesk, isDeskModalOpen,
                  failures >>
  /\ UNCHANGED lifeVars

\* A desk click that looks the centre up by id: with two desks of one id the
\* one registered last answers.
ClickDeskById(f) ==
  /\ f \in DeskFeatures
  /\ LET j == CHOOSE x \in 1..Len(DESK_LOCATIONS) :
                 /\ DESK_LOCATIONS[x].id = FeatureId(f)
                 /\ \A y \in 1..Len(DESK_LOCATIONS) :
                      DESK_LOCATIONS[y].id = FeatureId(f) => y <= x
     IN selectedDesk' = [coords |-> DESK_LOCATIONS[j].coords, profile |-> "",
                         id |-> FeatureId(f)]
  /\ isDeskModalOpen' = TRUE
  /\ Commit(Machine)
  /\ UNCHANGED << hasContext, unreachable, cursor, selectedLocation, isOpen, failures >>
  /\ UNCHANGED lifeVars

\* map.on("click", ...) on a desk
ClickDesk(f) ==
  /\ f \in DeskFeatures
  /\ selectedDesk' = [coords |-> FeatureCoords(f), profile |-> "", id |-> FeatureId(f)]
  /\ isDeskModalOpen' = TRUE
  /\ Commit(Machine)
  /\ UNCHANGED << hasContext, unreachable, cursor, selectedLocation, isOpen, failures >>
  /\ UNCHANGED lifeVars

\* map.on("click", ...) where the hit test reports no feature
ClickNothing ==
  /\ Commit(Machine)
  /\ UNCHANGED << hasContext, unreachable, cursor, selectedLocation, isOpen,
                  selectedDesk, isDeskModalOpen, failures >>
  /\ UNCHANGED lifeVars

\* The click's setTimeout callback runs.
TimerFire ==
  /\ timers # <<>>
  /\ Commit(TimerCallback([Machine EXCEPT !.timers = Tail(@)], Head(timers)))
  /\ UNCHANGED << hasContext, unreachable, cursor, selectedLocation, isOpen,
                  selectedDesk, isDeskModalOpen, failures >>
  /\ UNCHANGED lifeVars

ImgOnLoad(l) ==
  /\ BagIn(l, loads)
  /\ l.src \notin unreachable
  /\ Commit(OnLoad(Machine, l))
  /\ UNCHANGED << hasContext, unreachable, cursor, selectedLocation, isOpen,
                  selectedDesk, isDeskModalOpen, failures >>
  /\ UNCHANGED lifeVars

ImgOnError(l) ==
  /\ BagIn(l, loads)
  /\ l.src \in unreachable \/ failures < MaxFailures
  /\ failures' = IF l.src \in unreachable THEN failures ELSE failures + 1
  /\ Commit(OnError(Machine, l))
  /\ UNCHANGED << hasContext, unreachable, cursor, selectedLocation, isOpen,
                  selectedDesk, isDeskModalOpen >>
  /\ UNCHANGED lifeVars

\* A Close button that also clears the selection.
CloseProfileModalClearsSelection ==
  /\ isOpen
  /\ isOpen' = FALSE
  /\ selectedLocation' = NoSelection
  /\ Commit(Machine)
  /\ UNCHANGED << hasContext, unreachable, cursor, selectedDesk,
                  isDeskModalOpen, failures >>
  /\ UNCHANGED lifeVars

\* The Close button of the profile modal: setIsOpen(false)
CloseProfileModal ==
  /\ isOpen
  /\ isOpen' = FALSE
  /\ Commit(Machine)
  /\ UNCHANGED << hasContext, unreachable, cursor, selectedLocation, selectedDesk,
                  isDeskModalOpen, failures >>
  /\ UNCHANGED lifeVars

\* The Cancel button of the desk modal: setIsDeskModalOpen(false)
CloseDeskModal ==
  /\ isDeskModalOpen
  /\ isDeskModalOpen' = FALSE
  /\ Commit(Machine)
  /\ UNCHANGED << hasContext, unreachable, cursor, selectedLocation, isOpen,
                  selectedDesk, failures >>
  /\ UNCHANGED lifeVars

\* window "resize" with innerWidth = vw and innerHeight = vh: the listener
\* runs calculateMapHeight; when mapHeight changes the component renders
\* again and the map effect, which depends on mapHeight, runs again.
Resize(vw, vh) ==
  /\ resizeListeners > 0
  /\ mapHeight' = calculateMapHeight(vw, vh)
  /\ IF mapHeight' # mapHeight
     THEN /\ remounts < MaxRemounts
          /\ Quiescent
          /\ remounts' = remounts + 1
          /\ Commit(MapEffectRerun(Machine))
     ELSE /\ remounts' = remounts
          /\ Commit(Machine)
  /\ UNCHANGED << hasContext, unreachable, cursor, selectedLocation, isOpen,
                  selectedDesk, isDeskModalOpen, failures, mounted, resizeListeners >>

\* A teardown whose resize effect has no cleanup.
UnmountKeepsListener ==
  /\ mounted
  /\ mounted' = FALSE
  /\ resizeListeners' = resizeListeners
  /\ Commit(Machine)
  /\ UNCHANGED << hasContext, unreachable, cursor, selectedLocation, isOpen,
                  selectedDesk, isDeskModalOpen, failures, mapHeight, remounts >>

\* The component is torn down: the cleanups of both effects run,
\* window.removeEventListener("resize", ...) and map.setTarget(undefined).
Unmount ==
  /\ mounted
  /\ mounted' = FALSE
  /\ resizeListeners' = resizeListeners - 1
  /\ Commit(Machine)
  /\ UNCHANGED << hasContext, unreachable, cursor, selectedLocation, isOpen,
                  selectedDesk, isDeskModalOpen, failures, mapHeight, remounts >>

Next ==
  \/ \E f \in Features \cup {NoFeature} : PointerMove(f)
  \/ \E f \in ProfileFeatures : ClickProfileMarker(f)
  \/ \E f \in DeskFeatures : ClickDesk(f)
  \/ ClickNothing
  \/ TimerFire
  \/ \E l \in BagToSet(loads) : ImgOnLoad(l)
  \/ \E l \in BagToSet(loads) : ImgOnError(l)
  \/ CloseProfileModal
  \/ CloseDeskModal

Spec == Init /\ [][Next]_vars

\* Pointermove events alone: no clicks, hence no timers.
MoveNext ==
  \/ \E f \in Features \cup {NoFeature} : PointerMove(f)
  \/ \E l \in BagToSet(loads) : ImgOnLoad(l)
  \/ \E l \in BagToSet(loads) : ImgOnError(l)

MoveSpec == Init /\ [][MoveNext]_vars

\* The component's life without pointer input: image events, resize events
\* with the re-runs of the map effect they cause, and the teardown.
LifeNext ==
  \/ \E l \in BagToSet(loads) : ImgOnLoad(l)
  \/ \E l \in BagToSet(loads) : ImgOnError(l)
  \/ \E v \in Viewports : Resize(v[1], v[2])
  \/ Unmount

LifeSpec == Init /\ [][LifeNext]_vars

\* The image loads initializeFeatures can await: the preloads and the
\* createProfileStyle call of the placing loop for each location.
InitLoads ==
  { Load(src, size, Cont("preload", NoFeature, 0)) : src \in Sources, size \in Sizes }
    \cup { Load(DEFAULT_LOCATIONS[i].profile, DEFAULT_MARKER_SIZE,
                 Cont("place", NoFeature, i)) : i \in ProfileIdx }

\* The browser fires load or error for every image whose src was set: an
\* image event that stays possible happens.
FairSpec ==
  Spec /\ \A l \in InitLoads : WF_vars(ImgOnLoad(l) \/ ImgOnError(l))

\* ------------------------------------------------------------ properties
\* The default style of a feature: deskStyle for a desk; for a profile
\* marker what createProfileStyle(profile, DEFAULT_MARKER_SIZE) yields, the
\* icon of its own source at DEFAULT_MARKER_SIZE or the fallback.
IsDefaultStyle(f, s) ==
  IF FeatureType(f) = "desk" THEN s = deskStyle
  ELSE \/ s = EmptyStyle
       \/ /\ s.kind = "icon"
          /\ s.src = DEFAULT_LOCATIONS[f[2]].profile
          /\ s.size = DEFAULT_MARKER_SIZE

\* The features on the map that do not show their default style.
NonDefault == { f \in Hittable : ~IsDefaultStyle(f, featureStyle[f]) }

\* No pointermove handler is suspended.
PointerHandlersDone ==
  \A l \in BagToSet(loads) : l.k.op \notin {"revert", "hover"}

\* C1: once the pointer has left all markers (the latest pointermove event
\* reported no feature, cursor = "") and every pointermove handler has
\* completed, no marker is hovered and every marker shows its default style.
C1_HoverThenLeaveRestoresDefault ==
  (cursor = "" /\ PointerHandlersDone)
    => (hoveredFeature = NoFeature /\ NonDefault = {})

\* C2: under pointermove events alone, at most one marker shows a style
\* other than its default, also while handlers are suspended.
C2_AtMostOneNonDefault == Cardinality(NonDefault) <= 1

\* The step is the image event of load l: its promise resolves and its
\* continuation runs.  (Only an image event leaves a "loaded" or "failed"
\* record; the first conjunct spares evaluating the actions on other steps.)
Resolves(l) ==
  /\ \E c \in calls' : c.outcome \in {"loaded", "failed"}
                        /\ c.src = l.src /\ c.size = l.size
  /\ ImgOnLoad(l) \/ ImgOnError(l)

\* The step is a click on profile marker f (the only handler that asks for
\* the CLICK_MARKER_SIZE style), a click on desk f, a timer callback.
ClickProfileStep(f) ==
  /\ \E c \in calls' : c.size = CLICK_MARKER_SIZE
                        /\ c.outcome \in {"cached", "nocontext", "pending"}
  /\ ClickProfileMarker(f)

ClickDeskStep(f) == isDeskModalOpen' /\ calls' = {} /\ ClickDesk(f)

TimerStep == Len(timers') < Len(timers) /\ TimerFire

\* C3: when the hover style requested for marker M resolves after a later
\* pointermove event has reported another feature or none, the result is not
\* applied to M and M does not become the hovered marker.
C3_StaleHoverResultNotApplied ==
  [][ \A l \in BagToSet(loads) :
        (l.k.op = "hover" /\ l.k.stale /\ Resolves(l))
          => /\ featureStyle'[l.k.feature] = featureStyle[l.k.feature]
             /\ hoveredFeature' = l.k.feature => hoveredFeature = l.k.feature ]_vars

\* ---- C4
ClickCont(f) == Cont("click", f, 0)
TimerCont(f) == Cont("timer", f, 0)

\* The style a finished createProfileStyle(src, size) yields, by outcome: the
\* icon of that source and size when cached or loaded, the fallback otherwise.
StyleForOutcome(c, src, size) ==
  /\ c.src = src /\ c.size = size
  /\ c.outcome \in {"cached", "loaded", "nocontext", "failed"}
  /\ IF c.outcome \in {"cached", "loaded"}
     THEN c.style.kind = "icon" /\ c.style.src = src /\ c.style.size = size
     ELSE c.style = EmptyStyle

\* The click handler of f has got its large style in this step.
ClickResolves(f) ==
  \/ ClickProfileStep(f) /\ \A c \in calls' : c.outcome # "pending"
  \/ \E l \in BagToSet(loads) : l.k = ClickCont(f) /\ Resolves(l)

\* A timer callback for f has got its normal style in this step.
TimerResolves(f) ==
  \/ TimerStep /\ Head(timers) = f /\ \A c \in calls' : c.outcome # "pending"
  \/ \E l \in BagToSet(loads) : l.k = TimerCont(f) /\ Resolves(l)

\* C4: a click on profile marker M selects exactly M's coordinates and
\* profile source and opens the profile modal; when its large style arrives M
\* takes the CLICK_MARKER_SIZE style and the revert timer is scheduled; when
\* the timer has fired and its style has arrived M shows its default style.
C4_ClickProfileSelectsEnlargesReverts ==
  [][ \A f \in ProfileFeatures :
        /\ ClickProfileStep(f)
             => /\ selectedLocation'.coords = DEFAULT_LOCATIONS[f[2]].coords
                /\ selectedLocation'.profile = DEFAULT_LOCATIONS[f[2]].profile
                /\ isOpen'
        /\ ClickResolves(f)
             => /\ \E c \in calls' :
                     /\ StyleForOutcome(c, DEFAULT_LOCATIONS[f[2]].profile,
                                        CLICK_MARKER_SIZE)
                     /\ featureStyle'[f] = c.style
                /\ timers' = Append(timers, f)
        /\ TimerResolves(f)
             => \E c \in calls' :
                  /\ StyleForOutcome(c, DEFAULT_LOCATIONS[f[2]].profile,
                                     DEFAULT_MARKER_SIZE)
                  /\ featureStyle'[f] = c.style ]_vars

\* A click on the marker at (176, 325) has been followed by its timer: the
\* selection is that marker's, no click or timer of it is outstanding, and
\* the task that ran last fetched the cached default style it now shows.
C4_Witness ==
  /\ selectedLocation = [coords |-> <<176, 325>>,
                         profile |-> "/profiles/profile1.jpeg", id |-> ""]
  /\ isOpen
  /\ timers = <<>>
  /\ \A l \in BagToSet(loads) : l.k.op \notin {"click", "timer"}
  /\ hoveredFeature = NoFeature
  /\ featureStyle[ProfileFeature(1)].size = DEFAULT_MARKER_SIZE
  /\ \E c \in calls : c.outcome = "cached" /\ c.size = DEFAULT_MARKER_SIZE
                      /\ c.style = featureStyle[ProfileFeature(1)]

\* ---- C5
\* C5: a click on a desk selects exactly that desk's id and its own centre
\* and opens the desk modal; it changes no style, not hoveredFeature, not the
\* selected location or the profile modal flag, and schedules nothing.  Both
\* desks named "desk-6" report their own centre.
C5_DeskClickSelectsOnly ==
  [][ \A f \in DeskFeatures :
        ClickDeskStep(f)
          => /\ selectedDesk'.id = DESK_LOCATIONS[f[2]].id
             /\ selectedDesk'.coords = DESK_LOCATIONS[f[2]].coords
             /\ (f = DeskFeature(6) => selectedDesk'.coords = <<309, 250>>)
             /\ (f = DeskFeature(7) => selectedDesk'.coords = <<309, 96>>)
             /\ selectedDesk'.id = "desk-6"
             /\ isDeskModalOpen'
             /\ UNCHANGED << featureStyle, hoveredFeature, selectedLocation, isOpen,
                             timers, loads >> ]_vars

\* Each of the two desks named "desk-6" has been clicked at some point; here
\* the first of them is selected while the other one is hovered.
C5_Witness ==
  /\ selectedDesk.id = "desk-6"
  /\ selectedDesk.coords = <<309, 250>>
  /\ isDeskModalOpen
  /\ hoveredFeature = DeskFeature(7)
  /\ featureStyle[DeskFeature(7)] = deskHoverStyle

\* ---- C6
IsCall(c) == c.outcome \in {"cached", "nocontext", "pending"}

\* The image loads in flight for a (source, size) pair.
LoadsOf(ls, key) ==
  Copies(ls, { l \in BagToSet(ls) : <<l.src, l.size>> = key })

\* C6 as claimed: a call for a pair that was requested before returns the
\* style the cache holds and runs no compositing.
C6_SecondCallReturnsCached ==
  \A c \in calls :
    (IsCall(c) /\ c.again) => (c.outcome = "cached" /\ c.style = c.entry)

\* C6 as amended: a call for a pair that styleCache holds returns that very
\* style object, and a task all of whose calls are for such pairs starts no
\* image load.
C6_CachedCallReturnsCached ==
  [][ /\ \A c \in calls' :
           (IsCall(c) /\ c.entry # NoStyle)
             => (c.outcome = "cached" /\ c.style = c.entry)
      /\ (\A c \in calls' : IsCall(c) /\ c.entry # NoStyle)
           => \A key \in Keys : LoadsOf(loads', key) <= LoadsOf(loads, key) ]_vars

\* A pair requested again after its render was cached: the call is a hit.
C6_Witness ==
  \E c \in calls : c.again /\ c.outcome = "cached" /\ c.size = HOVER_MARKER_SIZE

\* ---- C7
\* C7: a call never rejects: without a context, and when the image load
\* fails, the awaiting code resumes with the empty fallback style (a placing
\* loop then sets it on the marker and adds the marker); and
\* initializeFeatures, which awaits every preload, eventually has placed
\* every profile marker, whichever sources are unreachable.
C7_ResolvesAndPlacesAll ==
  /\ [][ /\ \A c \in calls' :
              c.outcome \in {"nocontext", "failed"} => c.style = EmptyStyle
         /\ \A l \in BagToSet(loads) :
              (l.k.op = "place" /\ Resolves(l))
                => /\ ProfileFeature(l.k.idx) \in vectorSource'
                   /\ \E c \in calls' :
                        /\ c.outcome \in {"loaded", "failed"}
                        /\ c.outcome = "failed" => c.style = EmptyStyle
                        /\ featureStyle'[ProfileFeature(l.k.idx)] = c.style
         /\ \A l \in BagToSet(loads) :
              (l.k.op = "preload" /\ Resolves(l))
                => preloadsLeft' = preloadsLeft - 1 ]_vars
  /\ <>(vectorSource = ProfileFeatures /\ preloadsLeft = 0)

\* With a context but the image source unreachable, every marker has been
\* placed with the fallback style; the last load to fail was a placing one.
C7_Witness ==
  /\ hasContext
  /\ unreachable = Sources
  /\ vectorSource = ProfileFeatures
  /\ preloadsLeft = 0
  /\ \A f \in ProfileFeatures : featureStyle[f] = EmptyStyle
  /\ \E c \in calls : c.outcome = "failed" /\ c.size = DEFAULT_MARKER_SIZE

Enlarged ==
  { f \in Hittable : featureStyle[f].kind = "icon"
                     /\ featureStyle[f].size = CLICK_MARKER_SIZE }

\* C9: at most one marker carries the CLICK_MARKER_SIZE style.
C9_AtMostOneEnlarged == Cardinality(Enlarged) <= 1

\* ---- C10
\* C10: timers are never cancelled (the queue only grows by a click's timer
\* and shrinks by a timer firing); when a timer's style arrives for M, M
\* takes its default style whatever is hovered or scheduled, no other marker
\* changes style and hoveredFeature stays.
C10_TimerRevertUnconditional ==
  [][ /\ timers' # timers
           => \/ TimerStep /\ timers' = Tail(timers)
              \/ \E f \in ProfileFeatures :
                   ClickResolves(f) /\ timers' = Append(timers, f)
      /\ \A f \in ProfileFeatures :
           TimerResolves(f)
             => /\ IsDefaultStyle(f, featureStyle'[f])
                /\ \A g \in Features \ {f} : featureStyle'[g] = featureStyle[g]
                /\ hoveredFeature' = hoveredFeature ]_vars

\* The timer of a click on the marker at (309, 176) has just run while that
\* marker is hovered: it is the hovered marker, the hover style is cached,
\* and yet it shows the default style the last task fetched.
C10_Witness ==
  /\ hoveredFeature = ProfileFeature(5)
  /\ cursor = "pointer"
  /\ selectedLocation.coords = <<309, 176>>
  /\ styleCache[<<"/profiles/profile1.jpeg", HOVER_MARKER_SIZE>>] # NoStyle
  /\ featureStyle[ProfileFeature(5)].kind = "icon"
  /\ featureStyle[ProfileFeature(5)].size = DEFAULT_MARKER_SIZE
  /\ timers = <<ProfileFeature(5)>>
  /\ \E c \in calls : c.outcome = "cached" /\ c.size = DEFAULT_MARKER_SIZE

\* ---- C11
\* C11: the style cache only grows: a key that styleCache holds is held after
\* every step, be it a render completing or failing, a re-run of the map
\* effect or the teardown.
C11_CacheOnlyGrows ==
  [][ \A key \in Keys : styleCache[key] # NoStyle => styleCache'[key] # NoStyle ]_vars

\* The map effect has just run again on a tall wide viewport with every style
\* cached: its preloads and its placing loop were served from the cache.
C11_Witness ==
  /\ remounts = 1
  /\ mapHeight = MAX_MAP_HEIGHT
  /\ \A key \in Keys : styleCache[key] # NoStyle
  /\ vectorSource = ProfileFeatures
  /\ \E c \in calls : c.outcome = "cached" /\ c.size = CLICK_MARKER_SIZE

\* ---- C12
\* C12: styleCache is written only when a render succeeds: a step in which
\* no image has loaded (an image load failed, a call found no 2D context,
\* or no render was involved) leaves styleCache as it was, a failed load and
\* a call without context yield the empty fallback, the cache never holds a
\* fallback (each entry is an icon rendered for its own key), and a call for
\* a pair the cache does not hold runs the compositing path again (it starts
\* an image load, or stops at the missing context).
C12_CacheInsertOnlyOnSuccess ==
  /\ [](\A key \in Keys :
          \/ styleCache[key] = NoStyle
          \/ /\ styleCache[key].kind = "icon"
             /\ styleCache[key].src = key[1]
             /\ styleCache[key].size = key[2])
  /\ [][ /\ (\A c \in calls' : c.outcome # "loaded") => styleCache' = styleCache
         /\ \A c \in calls' :
              /\ c.outcome \in {"failed", "nocontext"} => c.style = EmptyStyle
              /\ (IsCall(c) /\ c.entry = NoStyle)
                   => c.outcome = (IF hasContext THEN "pending" ELSE "nocontext") ]_vars

\* A load of a reachable image has just failed, nothing was cached for its
\* pair, and the code resumed by the failure has requested the same pair
\* again: that call started a new image load.
C12_Witness ==
  \E c, d \in calls :
    /\ c.outcome = "failed" /\ c.src \notin unreachable
    /\ d.outcome = "pending" /\ d.again /\ d.entry = NoStyle
    /\ d.src = c.src /\ d.size = c.size
    /\ styleCache[<<c.src, c.size>>] = NoStyle
    /\ \E l \in BagToSet(loads) : l.src = c.src /\ l.size = c.size

\* ---- C13
\* The image event of this step resolved a render of the pair key.
ResolvedFor(key) ==
  \E d \in calls' : d.outcome \in {"loaded", "failed"} /\ <<d.src, d.size>> = key

\* C13: renders of the same (source, size) pair in flight together are not
\* deduplicated.  At startup, with a 2D context, each pair has one image load
\* in flight per location that uses the source (two for profile1.jpeg); a
\* call that misses the cache starts a load of its own, however many loads
\* of the pair are in flight; and every image load that succeeds makes the
\* cache entry of its pair the style object it has just built, replacing
\* the entry an earlier render of the pair wrote and leaving the other
\* entries alone: the last load to succeed wins.
C13_DuplicateRendersLastWriteWins ==
  /\ hasContext =>
       \A key \in Keys :
         LoadsOf(loads, key)
           = Cardinality({ i \in ProfileIdx : DEFAULT_LOCATIONS[i].profile = key[1] })
  /\ [][ \A c \in calls' :
           LET key == <<c.src, c.size>>
           IN /\ c.outcome = "pending"
                   => LoadsOf(loads', key) + (IF ResolvedFor(key) THEN 1 ELSE 0)
                        > LoadsOf(loads, key)
              /\ c.outcome = "loaded"
                   => /\ styleCache'[key] = c.style
                      /\ c.style # c.entry
                      /\ c.entry = styleCache[key]
                      /\ \A other \in Keys \ {key} :
                           styleCache'[other] = styleCache[other] ]_vars

\* Both startup renders of (profile1.jpeg, DEFAULT_MARKER_SIZE) have loaded:
\* the second one found the entry of the first and replaced it, and the
\* cache holds the style of the second.
C13_Witness ==
  LET key == <<"/profiles/profile1.jpeg", DEFAULT_MARKER_SIZE>>
  IN /\ LoadsOf(loads, key) = 0
     /\ failures = 0
     /\ \E c \in calls :
          /\ c.outcome = "loaded" /\ <<c.src, c.size>> = key
          /\ c.entry = IconStyle(key[1], key[2], 1)
          /\ styleCache[key] = c.style
          /\ c.style = IconStyle(key[1], key[2], 2)

\* ---- C14
\* C14: for every viewport (vw, vh) a resize event reports, calculateMapHeight
\* sets mapHeight to 600 when vw < 1024, whatever vh is, and otherwise to
\* vh - 120 kept within 400 and 1200: 400 when vh - 120 is below 400, 1200
\* when it is above 1200, vh - 120 itself in between.
C14_MapHeightOfViewport ==
  [][ \A v \in Viewports :
        Resize(v[1], v[2])
          => /\ v[1] < 1024 => mapHeight' = 600
             /\ (v[1] >= 1024 /\ v[2] - 120 < 400) => mapHeight' = 400
             /\ (v[1] >= 1024 /\ v[2] - 120 > 1200) => mapHeight' = 1200
             /\ (v[1] >= 1024 /\ v[2] - 120 >= 400 /\ v[2] - 120 <= 1200)
                  => mapHeight' = v[2] - 120 ]_vars

\* A resize to a wide viewport of height 880 has set the height to 760, and
\* the map effect has run again for it.
C14_Witness ==
  /\ mapHeight = 760
  /\ remounts = 1
  /\ mounted

\* ---- C15
\* C15: a pointermove event leaves the cursor "pointer" exactly when the hit
\* test at its pixel reports a feature, and "" otherwise, whatever
\* hoveredFeature is before or after the handler's synchronous part: the
\* cursor is set before the handler awaits a style.  (No step is a
\* pointermove event reporting f that leaves the cursor otherwise.)
C15_CursorFollowsHitTest ==
  [][ \A f \in Features \cup {NoFeature} :
        (cursor' = "pointer" <=> f # NoFeature) \/ ~PointerMove(f) ]_vars

\* The pointer is over a profile marker whose hover style is still being
\* rendered: the cursor is the pointer while hoveredFeature is still null.
C15_Witness ==
  /\ cursor = "pointer"
  /\ hoveredFeature = NoFeature
  /\ \E l \in BagToSet(loads) :
       /\ l.k.op = "hover" /\ ~l.k.stale
       /\ l.k.feature \in vectorSource
  /\ \E c \in calls : c.outcome = "pending" /\ c.size = HOVER_MARKER_SIZE

\* ---- C16
\* C16: the resize listener is registered once, at mount, and removed at
\* teardown: while the component is mounted exactly one resize listener is
\* registered, also after the map effect has run again for a new mapHeight,
\* and after teardown none is, so that mapHeight does not change any more.
C16_OneResizeListener ==
  /\ [](/\ resizeListeners <= 1
        /\ mounted => resizeListeners = 1
        /\ ~mounted => resizeListeners = 0)
  /\ [][ /\ mounted' => mounted
         /\ ~mounted => (mapHeight' = mapHeight /\ remounts' = remounts) ]_vars

\* The component was torn down after the map effect had run again.
C16_Witness ==
  /\ ~mounted
  /\ resizeListeners = 0
  /\ remounts = 1
  /\ mapHeight # InitialMapHeight

\* ---- C17
\* C17: a style is only ever set on the marker it was computed for: every
\* desk shows deskStyle or deskHoverStyle, and every profile marker shows
\* nothing yet (not placed), the fallback, or an icon rendered from its own
\* profile source.
C17_StyleOnlyOnOwnMarker ==
  \A f \in Features :
    IF FeatureType(f) = "desk"
    THEN featureStyle[f] \in {deskStyle, deskHoverStyle}
    ELSE \/ featureStyle[f] \in {NoStyle, EmptyStyle}
         \/ /\ featureStyle[f].kind = "icon"
            /\ featureStyle[f].src = FeatureProfile(f)

\* ---- C18
\* C18: while the profile modal is open a location is selected, and while
\* the desk modal is open a desk is selected; a step that closes a modal
\* clears that modal's flag only: both selections, the other flag and every
\* style stay; a selection, once made, is never cleared; and a click that
\* hits no marker changes no flag, no selection and no style.
C18_OpenModalHasSelection ==
  /\ [](/\ isOpen => selectedLocation # NoSelection
        /\ isDeskModalOpen => selectedDesk # NoSelection)
  /\ [][ /\ (isOpen /\ ~isOpen')
              => /\ selectedLocation' = selectedLocation
                 /\ selectedDesk' = selectedDesk
                 /\ isDeskModalOpen' = isDeskModalOpen
                 /\ featureStyle' = featureStyle
         /\ (isDeskModalOpen /\ ~isDeskModalOpen')
              => /\ selectedDesk' = selectedDesk
                 /\ selectedLocation' = selectedLocation
                 /\ isOpen' = isOpen
                 /\ featureStyle' = featureStyle
         /\ selectedLocation # NoSelection => selectedLocation' # NoSelection
         /\ selectedDesk # NoSelection => selectedDesk' # NoSelection
         /\ ClickNothing
              => /\ isOpen' = isOpen
                 /\ isDeskModalOpen' = isDeskModalOpen
                 /\ selectedLocation' = selectedLocation
                 /\ selectedDesk' = selectedDesk
                 /\ featureStyle' = featureStyle
                 /\ hoveredFeature' = hoveredFeature ]_vars

\* The profile modal was closed and its selection is still there, while the
\* desk modal is open for a desk clicked afterwards.
C18_Witness ==
  /\ ~isOpen
  /\ selectedLocation # NoSelection
  /\ isDeskModalOpen
  /\ selectedDesk # NoSelection
  /\ selectedDesk.id = "desk-6"

====
